---- MODULE Spec2Model ----
(***************************************************************************)
(* Javaspectre: the policy-gated action orchestrator.                      *)
(*                                                                         *)
(* The model covers ToolExecutor::execute, the three entry points          *)
(* CommandBlock::handleOrchestrate, CommandBlock::handleOrchestrateAugmented*)
(* and AugmentedToolExecutor::executeForCitizen, and the ALN ledger behind *)
(* AlnGateway.  Every caller is a thread of control (the entry points are  *)
(* static functions without any lock), the ledger is the only shared state.*)
(***************************************************************************)
EXTENDS Integers, Sequences, FiniteSets, TLC

\* ---------------------------------------------------------------- bounds
MaxCalls  == 2      \* top-level calls made in one behaviour, all threads together
MaxBudget == 1      \* largest risk budget a citizen starts with

Procs    == {1, 2}                      \* calling threads
Citizens == {"alice"}                   \* citizens the ledger knows
Unknown  == "ghost"                     \* a citizen the ledger does not know
Inputs   == {"entropy source detected"}
UserId    == "u1"
SessionId == "s1"

\* ------------------------------------------------------------ data model
\* AgentAction{type, payload, priority}
AgentAction(t, pl, pr) == [type |-> t, payload |-> pl, priority |-> pr]

NoAction == AgentAction("", [k \in {} |-> ""], 0)

\* ToolResult{success=false, detail}
ToolResult(s, d) == [success |-> s, detail |-> d]

\* SafetyDecision{allowed=false, reason}
SafetyDecision(a, r) == [allowed |-> a, reason |-> r]

\* CitizenEnvelope: the snapshot of the citizen's ledger state
CitizenEnvelope(c, b, h) == [citizenId |-> c, erisk |-> b, energyEpochHash |-> h]

NoEnvelope == CitizenEnvelope("", 0, 0)

\* std::string::substr(0, n)
Substr(s, n) == IF Len(s) <= n THEN s ELSE SubSeq(s, 1, n)

\* s contains sub as a contiguous substring
Contains(s, sub) ==
    \E i \in 1..(Len(s) - Len(sub) + 1) : SubSeq(s, i, i + Len(sub) - 1) = sub

StartsWith(s, pre) == Len(s) >= Len(pre) /\ SubSeq(s, 1, Len(pre)) = pre

\* One observable call made by a thread: a Logger::log, an AlnGateway call or
\* a ToolExecutor::execute, with its arguments and what it returned.
Call(op, event, data, e, act, ok) ==
    [op |-> op, event |-> event, data |-> data, env |-> e, act |-> act, ok |-> ok]

LogCall(event, data) == Call("log", event, data, NoEnvelope, NoAction, TRUE)

GatewayCall(op, e, act, ok) == Call(op, "", "", e, act, ok)

\* --------------------------------------------------- ToolExecutor::execute
RecognizedTypes ==
    {"RUN_DEEP_EXCAVATION", "PLAN_GENERATE_REPO_BLUEPRINT",
     "REQUEST_HUMAN_REVIEW", "TRIGGER_REMOTE_TOOL"}

PayloadOr(a, key, dflt) ==
    IF key \in DOMAIN a.payload THEN a.payload[key] ELSE dflt

\* a routing chain that reads its payload key without testing for it
MutExecuteNeedsPayload(a) ==
    IF a.type \in RecognizedTypes \ {"TRIGGER_REMOTE_TOOL"}
      THEN ToolResult(a.payload # [k \in {} |-> ""], "routed")
    ELSE IF a.type = "TRIGGER_REMOTE_TOOL"
      THEN ToolResult(TRUE,
             "Remote tool trigger stub executed (configure endpoint in integration layer).")
    ELSE ToolResult(FALSE, "Unknown action type: " \o a.type)

\* the routing chain of ToolExecutor::execute
execute(a) ==
    IF a.type = "RUN_DEEP_EXCAVATION"
      THEN ToolResult(TRUE, "Deep excavation triggered for layer: "
                             \o PayloadOr(a, "layer", "unknown"))
    ELSE IF a.type = "PLAN_GENERATE_REPO_BLUEPRINT"
      THEN ToolResult(TRUE, "Repo blueprint generation requested for target: "
                             \o PayloadOr(a, "target", "unspecified"))
    ELSE IF a.type = "REQUEST_HUMAN_REVIEW"
      THEN ToolResult(TRUE, "Human review requested for item: "
                             \o PayloadOr(a, "item", "unspecified"))
    ELSE IF a.type = "TRIGGER_REMOTE_TOOL"
      THEN ToolResult(TRUE,
             "Remote tool trigger stub executed (configure endpoint in integration layer).")
    ELSE ToolResult(FALSE, "Unknown action type: " \o a.type)

\* the audit entry written after the routing, and only for a routed action
MutLogOnSuccess(a) ==
    << GatewayCall("execute", NoEnvelope, a, execute(a).success) >>
    \o (IF execute(a).success THEN << LogCall("AgentAction.dispatch", a.type) >>
                               ELSE << >>)

\* what one ToolExecutor::execute adds to the caller's trace: the audit log
\* entry first, then the routing
executeCalls(a) ==
    << LogCall("AgentAction.dispatch", a.type),
       GatewayCall("execute", NoEnvelope, a, execute(a).success) >>

\* ------------------------------------------ CommandBlock::handleOrchestrate
\* the four steps in descending priority
MutStepsByPriority(c) ==
    << AgentAction("REQUEST_HUMAN_REVIEW",
                   [item |-> "orchestrated-plan", userId |-> c.userId], 8),
       AgentAction("TRIGGER_REMOTE_TOOL",
                   [tool |-> "ALNKernel.spectralScan",
                    inputSnippet |-> Substr(c.input, 256)], 6),
       AgentAction("RUN_DEEP_EXCAVATION",
                   [layer |-> "deep", sessionId |-> c.sessionId], 5),
       AgentAction("PLAN_GENERATE_REPO_BLUEPRINT",
                   [target |-> "virtual-object-ecosystem", userId |-> c.userId], 4) >>

\* the four steps handleOrchestrate pushes, in order
orchestrateSteps(c) ==
    << AgentAction("TRIGGER_REMOTE_TOOL",
                   [tool |-> "ALNKernel.spectralScan",
                    inputSnippet |-> Substr(c.input, 256)], 6),
       AgentAction("RUN_DEEP_EXCAVATION",
                   [layer |-> "deep", sessionId |-> c.sessionId], 5),
       AgentAction("PLAN_GENERATE_REPO_BLUEPRINT",
                   [target |-> "virtual-object-ecosystem", userId |-> c.userId], 4),
       AgentAction("REQUEST_HUMAN_REVIEW",
                   [item |-> "orchestrated-plan", userId |-> c.userId], 8) >>

MutConsentIgnored(c, steps) == steps # << >>

\* ctx.consentExecuteFirstStep && !env.plan.steps.empty()
autoExecute(c, steps) == c.consentExecuteFirstStep /\ steps # << >>

MutLastStep(steps) == steps[Len(steps)]

\* env.plan.steps.front()
front(steps) == steps[1]

BoolStr(b) == IF b THEN "true" ELSE "false"

\* ------------------------------------------------- AlnGateway (the ledger)
Cost == 1           \* risk budget one committed action consumes

DenyReasons ==
    {"risk budget exhausted", "ALN ledger commit failed; action not executed."}

Known(c) == c \in Citizens

\* AlnGateway::fetchCitizenEnvelope for a known citizen
fetchCitizenEnvelope(L, c) == CitizenEnvelope(c, L.budget[c], L.epoch)

\* AlnGateway::evaluateAction: decides on the snapshot alone
evaluateAction(e, a, why) ==
    IF e.erisk >= Cost THEN SafetyDecision(TRUE, "within budget")
                       ELSE SafetyDecision(FALSE, why)

\* AlnGateway::commitAction, accepted: the budget is consumed and the
\* energy event recorded in one step
commitAction(L, e, a) ==
    [budget |-> [L.budget EXCEPT ![e.citizenId] = @ - Cost],
     events |-> Append(L.events, [citizenId |-> e.citizenId, type |-> a.type]),
     epoch  |-> L.epoch + 1]

\* ------------------------------------------------------------------ state
VARIABLES
    pc,         \* where each thread is
    entry,      \* the entry point each thread is running
    ctx,        \* the AugmentedCommandContext of the running call
    envelope,   \* the AgentEnvelope the running call builds
    gate,       \* the locals of executeForCitizen
    trace,      \* the calls the running top-level call has made, in order
    prev,       \* the locals and calls of the thread's previous executeForCitizen run
    ledger,     \* the ALN ledger: budgets, energy events, epoch
    calls,      \* top-level calls begun so far
    tool,       \* a ToolExecutor::executePlan call: its plan, loop index, results, log
    hazard,     \* HazardEngine::evaluate applied to two inputs
    classify    \* a CommandBlock::handleClassify call: its context and envelope

vars == << pc, entry, ctx, envelope, gate, trace, prev, ledger, calls,
           tool, hazard, classify >>

\* the state of the callers of the gate and orchestration entry points
threadVars == << pc, entry, ctx, envelope, gate, trace, prev, ledger, calls >>

CommandContext(i, consent, c) ==
    [input |-> i, userId |-> UserId, sessionId |-> SessionId,
     consentExecuteFirstStep |-> consent, citizenId |-> c]

NoContext == CommandContext("", FALSE, "")

AgentEnvelope(title, data, steps) ==
    [title |-> title, data |-> data, plan |-> [steps |-> steps]]

NoAgentEnvelope == AgentEnvelope("", [k \in {} |-> ""], << >>)

\* the locals of one run of executeForCitizen
GateLocals(c, a, L) ==
    [citizenId |-> c, action |-> a,
     env |-> NoEnvelope, sd |-> SafetyDecision(FALSE, ""),
     committed |-> FALSE, routed |-> ToolResult(FALSE, ""),
     result |-> ToolResult(FALSE, ""), outcome |-> "None",
     before |-> L, after |-> L]

NoLedger == [budget |-> [c \in Citizens |-> 0], events |-> << >>, epoch |-> 0]

NoGate == GateLocals("", NoAction, NoLedger)

\* no earlier run of executeForCitizen
NoPrev == [gate |-> NoGate, trace |-> << >>]

\* actions a caller hands to executeForCitizen directly
DirectActions ==
    { AgentAction("TRIGGER_REMOTE_TOOL", [tool |-> "ALNKernel.hazardReport"], 5),
      AgentAction("SELF_DESTRUCT", [k \in {} |-> ""], 1) }

\* no executePlan, evaluate or handleClassify call is under way
NoTool == [pc |-> "none", plan |-> [goal |-> "", steps |-> << >>], i |-> 0,
           results |-> << >>, trace |-> << >>]

NoHazard == [pc |-> "none"]

NoClassify == [pc |-> "none"]

ThreadsIdle ==
    /\ pc       = [p \in Procs |-> "idle"]
    /\ entry    = [p \in Procs |-> "none"]
    /\ ctx      = [p \in Procs |-> NoContext]
    /\ envelope = [p \in Procs |-> NoAgentEnvelope]
    /\ gate     = [p \in Procs |-> NoGate]
    /\ trace    = [p \in Procs |-> << >>]
    /\ prev     = [p \in Procs |-> NoPrev]
    /\ calls    = 0

Init ==
    /\ ThreadsIdle
    /\ \E b \in [Citizens -> 0..MaxBudget] :
           ledger = [budget |-> b, events |-> << >>, epoch |-> 0]
    /\ tool = NoTool
    /\ hazard = NoHazard
    /\ classify = NoClassify

\* std::map operator[] assignment
Put(m, k, v) == [x \in DOMAIN m \cup {k} |-> IF x = k THEN v ELSE m[x]]

\* --------------------------------------------- double (IEEE-754 binary64)
\* A double in [0, 2^14) is kept exactly, as the natural number value * 2^Frac
\* written in limbs of LimbBits bits, least significant limb first, without
\* leading zero limbs.  Every operation rounds to 53 significant bits, to
\* nearest, ties to even, as the hardware does.
LimbBits == 14
Base     == 16384       \* 2^LimbBits
Frac     == 70          \* fraction bits kept; doubles >= 2^-18 are exact
Mant     == 53          \* significant bits of a double

Limb(a, i) == IF i \in 1..Len(a) THEN a[i] ELSE 0

RECURSIVE Trim(_)
Trim(a) == IF a # << >> /\ a[Len(a)] = 0 THEN Trim(SubSeq(a, 1, Len(a) - 1)) ELSE a

\* carry propagation over column sums, least significant first
RECURSIVE Carry(_, _)
Carry(cols, c) ==
    IF cols = << >>
      THEN (IF c = 0 THEN << >> ELSE << c % Base >> \o Carry(<< >>, c \div Base))
      ELSE LET v == cols[1] + c
           IN  << v % Base >> \o Carry(Tail(cols), v \div Base)

Max2(x, y) == IF x >= y THEN x ELSE y

AddBig(a, b) ==
    Trim(Carry([i \in 1..Max2(Len(a), Len(b)) |-> Limb(a, i) + Limb(b, i)], 0))

RECURSIVE ColSum(_, _, _, _)
ColSum(a, b, n, i) ==
    IF i > Len(a) THEN 0 ELSE Limb(a, i) * Limb(b, n + 1 - i) + ColSum(a, b, n, i + 1)

\* schoolbook product; a has at most 7 limbs so that a column sum fits
MulBig(a, b) ==
    IF a = << >> \/ b = << >> THEN << >>
    ELSE Trim(Carry([n \in 1..(Len(a) + Len(b) - 1) |-> ColSum(a, b, n, 1)], 0))

\* 2^k
Pow2Big(k) == [i \in 1..(k \div LimbBits + 1) |->
                 IF i = k \div LimbBits + 1 THEN 2 ^ (k % LimbBits) ELSE 0]

\* floor(a / 2^k)
ShiftRightBig(a, k) ==
    LET q == k \div LimbBits
        r == k % LimbBits
    IN  Trim([i \in 1..Max2(0, Len(a) - q) |->
                (Limb(a, i + q) \div (2 ^ r))
                + (Limb(a, i + q + 1) % (2 ^ r)) * (2 ^ (LimbBits - r))])

\* bit k of a, the lowest bit being bit 0
Bit(a, k) == (Limb(a, k \div LimbBits + 1) \div (2 ^ (k % LimbBits))) % 2

\* some bit below bit k is set
AnyBelow(a, k) ==
    \/ \E i \in 1..(k \div LimbBits) : Limb(a, i) # 0
    \/ Limb(a, k \div LimbBits + 1) % (2 ^ (k % LimbBits)) # 0

BitLen(a) ==
    IF a = << >> THEN 0
    ELSE LimbBits * (Len(a) - 1)
         + (CHOOSE k \in 1..LimbBits : 2 ^ (k - 1) <= a[Len(a)] /\ a[Len(a)] < 2 ^ k)

\* a < b, a = b: -1, 0, 1
RECURSIVE CmpFrom(_, _, _)
CmpFrom(a, b, i) ==
    IF i = 0 THEN 0
    ELSE IF a[i] < b[i] THEN -1
    ELSE IF a[i] > b[i] THEN 1
    ELSE CmpFrom(a, b, i - 1)

CmpBig(a, b) ==
    IF Len(a) < Len(b) THEN -1
    ELSE IF Len(a) > Len(b) THEN 1
    ELSE CmpFrom(a, b, Len(a))

\* a / d for a one-limb divisor d: quotient and remainder
RECURSIVE DivFrom(_, _, _, _)
DivFrom(a, d, i, rem) ==
    IF i = 0 THEN [q |-> << >>, r |-> rem]
    ELSE CHOOSE res \in
           UNION { { [q |-> Append(rest.q, v \div d), r |-> rest.r] :
                       rest \in {DivFrom(a, d, i - 1, v % d)} } :
                   v \in {rem * Base + a[i]} } : TRUE

DivSmall(a, d) ==
    CHOOSE res \in { [q |-> Trim(x.q), r |-> x.r] : x \in {DivFrom(a, d, Len(a), 0)} } : TRUE

\* The double nearest to p * 2^-s (ties to even), where sticky says that the
\* exact value lies strictly above p * 2^-s and below (p + 1) * 2^-s.
RoundDouble(p0, s, sticky) ==
    LET p    == CHOOSE v \in {p0} : TRUE
        drop == Max2(0, BitLen(p) - Mant)
        kept == ShiftRightBig(p, drop)
        up   == /\ drop > 0
                /\ Bit(p, drop - 1) = 1
                /\ (AnyBelow(p, drop - 1) \/ sticky \/ Bit(kept, 0) = 1)
        m    == IF up THEN AddBig(kept, << 1 >>) ELSE kept
        sh   == drop - s + Frac
    IN  IF sh >= 0 THEN MulBig(m, Pow2Big(sh)) ELSE ShiftRightBig(m, -sh)

\* an integer 0 <= n < 2^28 converted to double
FromInt(n) == MulBig(Trim(<< n % Base, n \div Base >>), Pow2Big(Frac))

Zero == << >>
One  == FromInt(1)

\* the double n / d of two small integers: a decimal literal such as 0.4 is
\* Ratio(4, 10), an int divided by a double such as size / 1000.0 is Ratio(size, 1000)
Ratio(n, d) ==
    LET x == DivSmall(MulBig(Trim(<< n % Base, n \div Base >>), Pow2Big(2 * Frac)), d)
    IN  RoundDouble(x.q, 2 * Frac, x.r # 0)

\* a * b and a + b in double
MulD(a, b) ==
    CHOOSE r \in { RoundDouble(MulBig(u, v), 2 * Frac, FALSE) : u \in {a}, v \in {b} } : TRUE

AddD(a, b) ==
    CHOOSE r \in { RoundDouble(AddBig(u, v), Frac, FALSE) : u \in {a}, v \in {b} } : TRUE

GtD(a, b) == CmpBig(a, b) = 1

LeD(a, b) == CmpBig(a, b) <= 0

MinD(a, b) == CHOOSE r \in { IF CmpBig(v, u) = -1 THEN v ELSE u : u \in {a}, v \in {b} } : TRUE

MaxD(a, b) == CHOOSE r \in { IF CmpBig(u, v) = -1 THEN v ELSE u : u \in {a}, v \in {b} } : TRUE

\* the value in millionths, rounded to nearest, ties to even: the digits "%f" prints
Micros(a) ==
    LET p == CHOOSE r \in { MulBig(u, << 576, 61 >>) : u \in {a} } : TRUE         \* 1000000 = 61 * 2^14 + 576
        q == ShiftRightBig(p, Frac)
        up == /\ Bit(p, Frac - 1) = 1
              /\ (AnyBelow(p, Frac - 1) \/ Bit(q, 0) = 1)
        m == IF up THEN AddBig(q, << 1 >>) ELSE q
    IN  Limb(m, 1) + Base * Limb(m, 2)

Digit(d) == SubSeq("0123456789", d + 1, d + 1)

RECURSIVE Decimal(_)
Decimal(n) == IF n < 10 THEN Digit(n) ELSE Decimal(n \div 10) \o Digit(n % 10)

RECURSIVE Digits(_, _)
Digits(n, w) == IF w = 0 THEN "" ELSE Digits(n \div 10, w - 1) \o Digit(n % 10)

\* std::to_string(double): "%f", six decimals
to_string(a) ==
    LET u == Micros(a) IN Decimal(u \div 1000000) \o "." \o Digits(u % 1000000, 6)

\* ------------------------------------------- HazardEngine::evaluate
HazardInput(e, d, r, v) ==
    [entropy |-> e, semanticDensity |-> d, recursionDepth |-> r, identityVariance |-> v]

HazardOutput(s, c, e, o) ==
    [score |-> s, cognitiveHazard |-> c, entropyAnomaly |-> e, ontologicalInstability |-> o]

\* HazardEngine::evaluate: the sum is taken left to right, each product and
\* each sum rounded to double
evaluate(in) ==
    LET score == CHOOSE r \in {AddD(AddD(AddD(MulD(in.entropy, Ratio(4, 10)),
                                MulD(in.semanticDensity, Ratio(3, 10))),
                           MulD(in.recursionDepth, Ratio(2, 10))),
                      MulD(in.identityVariance, Ratio(1, 10)))} : TRUE
    IN  HazardOutput(score,
                     GtD(score, Ratio(65, 100)),
                     GtD(in.entropy, Ratio(75, 100)),
                     GtD(in.identityVariance, Ratio(6, 10)))

\* signal values in twentieths
HazardGrid == {0, 10, 13, 15, 18, 20}

Signals == { Ratio(n, 20) : n \in HazardGrid }

HazardInputs ==
    { HazardInput(e, d, r, v) : e \in {Zero, Ratio(18, 20), One}, d \in {Zero, One},
                                r \in {Zero, One}, v \in Signals }

Fields == {"entropy", "semanticDensity", "recursionDepth", "identityVariance"}

\* a pair of inputs, the second no smaller than the first in one signal and
\* equal to it in the others
InitHazard ==
    /\ ThreadsIdle
    /\ ledger = NoLedger
    /\ tool = NoTool
    /\ classify = NoClassify
    /\ \E lo \in HazardInputs, f \in Fields, s \in Signals :
          /\ LeD(lo[f], s)
          /\ hazard = [pc |-> "called", in |-> << lo, [lo EXCEPT ![f] = s] >>,
                       out |-> << >>]

\* one call of HazardEngine::evaluate, on the next input of the pair
hazardEvaluate ==
    /\ hazard.pc = "called"
    /\ hazard' = [hazard EXCEPT
                    !.out = Append(@, evaluate(hazard.in[Len(hazard.out) + 1])),
                    !.pc = IF Len(hazard.out) = 1 THEN "returned" ELSE "called"]
    /\ UNCHANGED << threadVars, tool, classify >>

\* the same input evaluated once more
hazardAgain ==
    /\ hazard.pc = "returned"
    /\ Len(hazard.out) = 2
    /\ hazard' = [hazard EXCEPT !.out = Append(@, evaluate(hazard.in[1]))]
    /\ UNCHANGED << threadVars, tool, classify >>

NextHazard ==
    \/ hazardEvaluate
    \/ hazardAgain

SpecHazard == InitHazard /\ [][NextHazard]_vars

AllOnes == HazardInput(One, One, One, One)

\* the score stays in [0,1] and does not fall when one signal rises
ScoreBoundedMonotone ==
    /\ \A i \in DOMAIN hazard.out :
          LeD(Zero, hazard.out[i].score) /\ LeD(hazard.out[i].score, One)
    /\ Len(hazard.out) >= 2 => LeD(hazard.out[1].score, hazard.out[2].score)

\* C17: for signals in [0,1] the score of HazardEngine::evaluate lies in
\* [0,1], does not fall when one signal rises and the others stay, and is
\* exactly 1.0 at the all-ones input.
C17_ScoreRangeMonotoneMax ==
    /\ ScoreBoundedMonotone
    /\ \A i \in DOMAIN hazard.out :
          hazard.in[IF i = 3 THEN 1 ELSE i] = AllOnes => hazard.out[i].score = One

\* the flags follow the thresholds on the returned score and on the signals,
\* and the same input gives the same output
ThresholdPolicy ==
    /\ \A i \in DOMAIN hazard.out :
          LET in == hazard.in[IF i = 3 THEN 1 ELSE i]
              o  == hazard.out[i]
          IN  /\ o.cognitiveHazard <=> GtD(o.score, Ratio(65, 100))
              /\ o.entropyAnomaly <=> GtD(in.entropy, Ratio(75, 100))
              /\ o.ontologicalInstability <=> GtD(in.identityVariance, Ratio(6, 10))
    /\ Len(hazard.out) = 3 => hazard.out[3] = hazard.out[1]
    /\ Len(hazard.out) >= 2 /\ hazard.in[1] = hazard.in[2] => hazard.out[1] = hazard.out[2]

EntropyOnly == HazardInput(Ratio(9, 10), Zero, Zero, Zero)

\* C18: cognitiveHazard iff score > 0.65, entropyAnomaly iff entropy > 0.75,
\* ontologicalInstability iff identityVariance > 0.6, the same output for the
\* same input; entropy = 0.9 with the other signals 0 gives score 0.36,
\* entropyAnomaly and no cognitiveHazard.
C18_ThresholdsAndExample ==
    /\ ThresholdPolicy
    /\ \A i \in DOMAIN hazard.out :
          hazard.in[IF i = 3 THEN 1 ELSE i] = EntropyOnly =>
              /\ hazard.out[i].score = Ratio(36, 100)
              /\ hazard.out[i].entropyAnomaly
              /\ ~hazard.out[i].cognitiveHazard

\* what evaluate does return for the two inputs the claims name
HazardExamples ==
    \A i \in DOMAIN hazard.out :
        LET in == hazard.in[IF i = 3 THEN 1 ELSE i]
            o  == hazard.out[i]
        IN  /\ in = EntropyOnly =>
                  /\ o.entropyAnomaly /\ ~o.cognitiveHazard
                  /\ GtD(o.score, Ratio(36, 100))
                  /\ to_string(o.score) = "0.360000"
            /\ in = AllOnes =>
                  /\ GtD(One, o.score)
                  /\ to_string(o.score) = "1.000000"
                  /\ o.cognitiveHazard

\* ------------------------------------------- SemanticDensity::measure
\* s repeated n times
RECURSIVE Rep(_, _)
Rep(s, n) ==
    IF n = 0 THEN ""
    ELSE LET h == Rep(s, n \div 2)
         IN  h \o h \o (IF n % 2 = 1 THEN s ELSE "")

CharAt(s, i) == SubSeq(s, i, i)

\* the characters operator>> skips
IsSpace(ch) == ch \in {" ", "\t", "\n", "\r", "\f"}

TokenStarts(s) ==
    { i \in 1..Len(s) : ~IsSpace(CharAt(s, i)) /\ (i = 1 \/ IsSpace(CharAt(s, i - 1))) }

TokenEnds(s) ==
    { j \in 1..Len(s) : ~IsSpace(CharAt(s, j)) /\ (j = Len(s) \/ IsSpace(CharAt(s, j + 1))) }

\* the tokens `iss >> token` reads, as (start, token) pairs
Tokens(s) ==
    LET ends == TokenEnds(s)
    IN  { << i, SubSeq(s, i, CHOOSE j \in ends : j >= i /\ \A k \in ends : k >= i => j <= k) >> :
            i \in TokenStarts(s) }

\* SemanticDensity::measure: unique tokens over tokens, 0.0 without tokens
measure(s) ==
    LET tokens == Tokens(s)
        unique == { t[2] : t \in tokens }
    IN  IF s = "" THEN Zero
        ELSE IF tokens = {} THEN Zero
        ELSE Ratio(Cardinality(unique), Cardinality(tokens))

\* ------------------------------------------- CommandBlock::handleClassify
\* the HazardInput handleClassify derives from the input text
hazardInputOf(c) ==
    HazardInput(MinD(One, MaxD(Zero, Ratio(Len(c.input), 1000))),
                measure(c.input), Ratio(3, 10), Ratio(2, 10))

classifyData(hout) ==
    [score |-> to_string(hout.score),
     cognitiveHazard |-> BoolStr(hout.cognitiveHazard),
     entropyAnomaly |-> BoolStr(hout.entropyAnomaly),
     ontologicalInstability |-> BoolStr(hout.ontologicalInstability)]

reviewStep(c) ==
    AgentAction("REQUEST_HUMAN_REVIEW",
                [item |-> "cognitive-hazard-input", userId |-> c.userId], 10)

excavationStep(c) ==
    AgentAction("RUN_DEEP_EXCAVATION",
                [layer |-> "entropy-anomaly", sessionId |-> c.sessionId], 7)

reportStep(hout) ==
    AgentAction("TRIGGER_REMOTE_TOOL",
                [tool |-> "ALNKernel.hazardReport",
                 severityScore |-> to_string(hout.score)], 5)

\* the steps in descending hazard: the report first, the two flags swapped
MutClassifySteps(hout, c) ==
    << reportStep(hout) >>
    \o (IF hout.entropyAnomaly THEN << reviewStep(c) >> ELSE << >>)
    \o (IF hout.cognitiveHazard THEN << excavationStep(c) >> ELSE << >>)

\* the three push_backs of handleClassify
classifySteps(hout, c) ==
    (IF hout.cognitiveHazard THEN << reviewStep(c) >> ELSE << >>)
    \o (IF hout.entropyAnomaly THEN << excavationStep(c) >> ELSE << >>)
    \o << reportStep(hout) >>

\* env.data of handleSpectralScan
scanData(i) == [semanticDensity |-> to_string(measure(i))]

\* what handleOrchestrate copies from scanEnv.data and classifyEnv.data, for
\* each input text
OrchestrateData ==
    [i \in Inputs |->
        [semanticDensity |-> scanData(i).semanticDensity,
         hazardScore |-> classifyData(evaluate(hazardInputOf([input |-> i]))).score]]

\* What CommandBlock::handleOrchestrate(c) returns and the calls it makes:
\* the four-step plan, and ToolExecutor::execute on its first step when the
\* caller consents.
orchestrate(c) ==
    LET steps == orchestrateSteps(c)
        run   == autoExecute(c, steps)
        r     == execute(front(steps))
    IN  [envelope |->
            AgentEnvelope("Orchestration Plan",
                          [semanticDensity |-> OrchestrateData[c.input].semanticDensity,
                           hazardScore |-> OrchestrateData[c.input].hazardScore,
                           firstStepAutoExecuted |->
                              IF run THEN BoolStr(r.success) ELSE "false"],
                          steps),
         made |-> IF run THEN executeCalls(front(steps)) ELSE << >>]

\* ------------------------------- AugmentedToolExecutor::executeForCitizen
MutNeverStops(x) == FALSE

\* if (!sd.allowed)
denied(d) == ~d.allowed

\* if (!committed)
commitFailed(committed) == ~committed

\* if (!routed.success)
routeFailed(r) == ~r.success

deniedDetail(d) == "Action denied by ALN safety/energy guard: " \o d.reason

commitFailedDetail == "ALN ledger commit failed; action not executed."

executedDetail(r) == "Action executed under ALN safety envelope. " \o r.detail

MutSkipEvaluate == "commit"

\* the statement that follows a successful fetchCitizenEnvelope
afterFetch == "evaluate"

\* a lookup failure that is caught and stepped over
MutSwallowLookup == "evaluate"

\* where control goes when fetchCitizenEnvelope fails: executeForCitizen has
\* no handler around the call, so the failure leaves it
afterLookupFailure == "thrown"

\* the envelope of the thread's earlier run kept and used again
MutCachedEnvelope(fetched, earlier) ==
    IF earlier = NoEnvelope THEN fetched ELSE earlier

\* the local env of executeForCitizen: what this run's fetchCitizenEnvelope
\* returned; nothing is kept from an earlier run
envInUse(fetched, earlier) == fetched

\* a failed route that puts the ledger back as the run found it
MutRollback(L, g, r) == IF r.success THEN L ELSE g.before

\* the ledger after ToolExecutor::execute returned r: executeForCitizen makes
\* no AlnGateway call after commitAction, on either branch
afterRoute(L, g, r) == L

\* a run that starts without its request log entry
MutRequestNotLogged(a) == << >>

\* Logger::log("AugmentedCitizenAction.request", action.type), the first
\* statement of executeForCitizen after result.success = false
requestLog(a) == << LogCall("AugmentedCitizenAction.request", a.type) >>

MutCommitFailedDetail(r) == "ALN ledger commit failed; action not executed."

routeFailedDetail(r) == "Tool route failed after commit: " \o r.detail

\* the part of a call's trace that executeForCitizen made: from its request
\* log entry on
IsRequest(e) == e.op = "log" /\ e.event = "AugmentedCitizenAction.request"

GateStart(t) ==
    IF \E i \in DOMAIN t : IsRequest(t[i])
      THEN CHOOSE i \in DOMAIN t :
              IsRequest(t[i]) /\ \A j \in 1..(i - 1) : ~IsRequest(t[j])
      ELSE Len(t) + 1

GateTrace(t) == SubSeq(t, GateStart(t), Len(t))

\* where the caller of executeForCitizen continues
afterGate(p) ==
    IF entry[p] = "handleOrchestrateAugmented" THEN "record" ELSE "returned"

Begin(p, e, c) ==
    /\ pc[p] = "idle"
    /\ calls < MaxCalls
    /\ calls' = calls + 1
    /\ entry' = [entry EXCEPT ![p] = e]
    /\ ctx'   = [ctx EXCEPT ![p] = c]

\* a caller invokes executeForCitizen(citizen, action) directly
CallExecuteForCitizen(p) ==
    \E c \in Citizens \cup {Unknown}, a \in DirectActions :
        /\ Begin(p, "executeForCitizen", CommandContext("", FALSE, c))
        /\ pc' = [pc EXCEPT ![p] = "request"]
        /\ gate' = [gate EXCEPT ![p] = GateLocals(c, a, ledger)]
        /\ trace' = [trace EXCEPT ![p] = << >>]
        /\ UNCHANGED << envelope, prev, ledger, tool, hazard, classify >>

\* CommandBlock::handleOrchestrate, the whole handler
handleOrchestrate(p) ==
    \E i \in Inputs, consent \in BOOLEAN :
        LET c == CommandContext(i, consent, "")
            o == orchestrate(c)
        IN  /\ Begin(p, "handleOrchestrate", c)
            /\ envelope' = [envelope EXCEPT ![p] = o.envelope]
            /\ trace' = [trace EXCEPT ![p] = o.made]
            /\ pc' = [pc EXCEPT ![p] = "returned"]
            /\ UNCHANGED << gate, prev, ledger, tool, hazard, classify >>

\* CommandBlock::handleOrchestrateAugmented up to the call of
\* executeForCitizen: the base plan, the copy, the consent test
handleOrchestrateAugmented(p) ==
    \E i \in Inputs, consent \in BOOLEAN, cz \in Citizens \cup {Unknown} :
        LET c    == CommandContext(i, consent, cz)
            base == orchestrate(c)
            env0 == AgentEnvelope("Augmented-Citizen Orchestration Plan",
                                  base.envelope.data, base.envelope.plan.steps)
        IN  /\ Begin(p, "handleOrchestrateAugmented", c)
            /\ trace' = [trace EXCEPT ![p] = base.made]
            /\ IF autoExecute(c, env0.plan.steps)
                 THEN /\ envelope' = [envelope EXCEPT ![p] = env0]
                      /\ gate' = [gate EXCEPT ![p] =
                                    GateLocals(cz, front(env0.plan.steps), ledger)]
                      /\ pc' = [pc EXCEPT ![p] = "request"]
                 ELSE /\ envelope' = [envelope EXCEPT ![p] =
                            [env0 EXCEPT !.data =
                                Put(@, "firstStepAutoExecuted", "false")]]
                      /\ gate' = gate
                      /\ pc' = [pc EXCEPT ![p] = "returned"]
            /\ UNCHANGED << prev, ledger, tool, hazard, classify >>

\* executeForCitizen: result.success = false; the request log entry
gateRequest(p) ==
    /\ pc[p] = "request"
    /\ trace' = [trace EXCEPT ![p] = @ \o requestLog(gate[p].action)]
    /\ gate' = [gate EXCEPT ![p].result = ToolResult(FALSE, ""),
                            ![p].before = ledger, ![p].after = ledger]
    /\ pc' = [pc EXCEPT ![p] = "fetch"]
    /\ UNCHANGED << entry, ctx, envelope, prev, ledger, calls, tool, hazard, classify >>

\* env = AlnGateway::fetchCitizenEnvelope(citizen.citizenId)
gateFetch(p) ==
    /\ pc[p] = "fetch"
    /\ IF Known(gate[p].citizenId)
         THEN LET e == fetchCitizenEnvelope(ledger, gate[p].citizenId)
              IN  /\ gate' = [gate EXCEPT ![p].env = envInUse(e, prev[p].gate.env)]
                  /\ trace' = [trace EXCEPT ![p] =
                        Append(@, GatewayCall("fetchCitizenEnvelope", e, NoAction, TRUE))]
                  /\ pc' = [pc EXCEPT ![p] = afterFetch]
         ELSE /\ gate' = [gate EXCEPT ![p].outcome = "LookupFailed",
                                      ![p].after = ledger]
              /\ trace' = [trace EXCEPT ![p] =
                    Append(@, GatewayCall("fetchCitizenEnvelope", NoEnvelope,
                                          NoAction, FALSE))]
              /\ pc' = [pc EXCEPT ![p] = afterLookupFailure]
    /\ UNCHANGED << entry, ctx, envelope, prev, ledger, calls, tool, hazard, classify >>

\* sd = AlnGateway::evaluateAction(env, action); the denied return
gateEvaluate(p) ==
    /\ pc[p] = "evaluate"
    /\ \E why \in DenyReasons :
        LET g == gate[p]
            d == evaluateAction(g.env, g.action, why)
            called == Append(trace[p],
                         GatewayCall("evaluateAction", g.env, g.action, d.allowed))
        IN  IF denied(d)
              THEN /\ gate' = [gate EXCEPT ![p].sd = d,
                        ![p].result = ToolResult(FALSE, deniedDetail(d)),
                        ![p].outcome = "Denied", ![p].after = ledger]
                   /\ trace' = [trace EXCEPT ![p] =
                        Append(called, LogCall("AugmentedCitizenAction.denied",
                                               deniedDetail(d)))]
                   /\ pc' = [pc EXCEPT ![p] = afterGate(p)]
              ELSE /\ gate' = [gate EXCEPT ![p].sd = d]
                   /\ trace' = [trace EXCEPT ![p] = called]
                   /\ pc' = [pc EXCEPT ![p] = "commit"]
    /\ UNCHANGED << entry, ctx, envelope, prev, ledger, calls, tool, hazard, classify >>

\* committed = AlnGateway::commitAction(env, action); the commit-failed return
gateCommit(p) ==
    /\ pc[p] = "commit"
    /\ \E ok \in BOOLEAN :
        LET g == gate[p]
            called == Append(trace[p],
                         GatewayCall("commitAction", g.env, g.action, ok))
        IN  /\ ledger' = IF ok THEN commitAction(ledger, g.env, g.action) ELSE ledger
            /\ IF commitFailed(ok)
                 THEN /\ gate' = [gate EXCEPT ![p].committed = ok,
                           ![p].result = ToolResult(FALSE, commitFailedDetail),
                           ![p].outcome = "CommitFailed", ![p].after = ledger']
                      /\ trace' = [trace EXCEPT ![p] =
                           Append(called, LogCall("AugmentedCitizenAction.commitFailed",
                                                  commitFailedDetail))]
                      /\ pc' = [pc EXCEPT ![p] = afterGate(p)]
                 ELSE /\ gate' = [gate EXCEPT ![p].committed = ok]
                      /\ trace' = [trace EXCEPT ![p] = called]
                      /\ pc' = [pc EXCEPT ![p] = "route"]
    /\ UNCHANGED << entry, ctx, envelope, prev, calls, tool, hazard, classify >>

\* routed = ToolExecutor::execute(action); the route-failed and executed returns
gateRoute(p) ==
    /\ pc[p] = "route"
    /\ ledger' = afterRoute(ledger, gate[p], execute(gate[p].action))
    /\ LET g == gate[p]
           r == execute(g.action)
           called == trace[p] \o executeCalls(g.action)
       IN  IF routeFailed(r)
             THEN /\ gate' = [gate EXCEPT ![p].routed = r,
                       ![p].result = ToolResult(FALSE, routeFailedDetail(r)),
                       ![p].outcome = "RouteFailed", ![p].after = ledger']
                  /\ trace' = [trace EXCEPT ![p] =
                       Append(called, LogCall("AugmentedCitizenAction.routeFailed",
                                              routeFailedDetail(r)))]
             ELSE /\ gate' = [gate EXCEPT ![p].routed = r,
                       ![p].result = ToolResult(TRUE, executedDetail(r)),
                       ![p].outcome = "Executed", ![p].after = ledger']
                  /\ trace' = [trace EXCEPT ![p] =
                       Append(called, LogCall("AugmentedCitizenAction.executed",
                                              executedDetail(r)))]
    /\ pc' = [pc EXCEPT ![p] = afterGate(p)]
    /\ UNCHANGED << entry, ctx, envelope, prev, calls, tool, hazard, classify >>

\* handleOrchestrateAugmented after executeForCitizen returned r
augmentedRecord(p) ==
    /\ pc[p] = "record"
    /\ LET r == gate[p].result
       IN  envelope' = [envelope EXCEPT ![p].data =
              Put(Put(@, "firstStepAutoExecuted", BoolStr(r.success)),
                  "firstStepDetail", r.detail)]
    /\ pc' = [pc EXCEPT ![p] = "returned"]
    /\ UNCHANGED << entry, ctx, gate, trace, prev, ledger, calls, tool, hazard, classify >>

\* the call is over (returned or thrown); the thread may call again
Return(p) ==
    /\ pc[p] \in {"returned", "thrown"}
    /\ prev' = [prev EXCEPT ![p] =
          IF gate[p].outcome = "None" THEN @
          ELSE [gate |-> gate[p], trace |-> GateTrace(trace[p])]]
    /\ pc' = [pc EXCEPT ![p] = "idle"]
    /\ entry' = [entry EXCEPT ![p] = "none"]
    /\ ctx' = [ctx EXCEPT ![p] = NoContext]
    /\ envelope' = [envelope EXCEPT ![p] = NoAgentEnvelope]
    /\ gate' = [gate EXCEPT ![p] = NoGate]
    /\ trace' = [trace EXCEPT ![p] = << >>]
    /\ UNCHANGED << ledger, calls, tool, hazard, classify >>

Next ==
    \/ \E p \in Procs : CallExecuteForCitizen(p)
    \/ \E p \in Procs : handleOrchestrate(p)
    \/ \E p \in Procs : handleOrchestrateAugmented(p)
    \/ \E p \in Procs : gateRequest(p)
    \/ \E p \in Procs : gateFetch(p)
    \/ \E p \in Procs : gateEvaluate(p)
    \/ \E p \in Procs : gateCommit(p)
    \/ \E p \in Procs : gateRoute(p)
    \/ \E p \in Procs : augmentedRecord(p)
    \/ \E p \in Procs : Return(p)

Spec == Init /\ [][Next]_vars

\* a single caller: the threads never overlap
NextSeq ==
    \/ CallExecuteForCitizen(1)
    \/ handleOrchestrate(1)
    \/ handleOrchestrateAugmented(1)
    \/ gateRequest(1)
    \/ gateFetch(1)
    \/ gateEvaluate(1)
    \/ gateCommit(1)
    \/ gateRoute(1)
    \/ augmentedRecord(1)
    \/ Return(1)

SpecSeq == Init /\ [][NextSeq]_vars

\* ----------------------------------------------------------- properties
Orchestrations == {"handleOrchestrate", "handleOrchestrateAugmented"}

\* the AlnGateway and ToolExecutor calls of a trace, in order
Collaborator(e) == e.op # "log"

OpsOf(t) == LET c == SelectSeq(t, Collaborator) IN [i \in DOMAIN c |-> c[i].op]

IsPrefix(s, t) == Len(s) <= Len(t) /\ SubSeq(t, 1, Len(s)) = s

Has(t, op) == \E i \in DOMAIN t : t[i].op = op

\* executeForCitizen has come to its end in thread p
GateOver(p) == pc[p] \in {"record", "returned", "thrown"} /\ gate[p].outcome # "None"

\* C1: in a run of executeForCitizen every ToolExecutor::execute comes after
\* a commitAction of the same action that returned true in that run, and a
\* run whose commitAction returned false never calls execute.
C1_DispatchOnlyAfterCommit ==
    \A p \in Procs :
        LET t == GateTrace(trace[p])
        IN  /\ \A i \in DOMAIN t :
                 t[i].op = "execute" =>
                    \E j \in 1..(i - 1) :
                        t[j].op = "commitAction" /\ t[j].ok /\ t[j].act = t[i].act
            /\ (\E j \in DOMAIN t : t[j].op = "commitAction" /\ ~t[j].ok)
                  => ~Has(t, "execute")

\* one run dispatched after its commit, another was allowed and lost its commit
C1_Witness ==
    \E p, q \in Procs :
        /\ GateOver(p) /\ gate[p].outcome = "Executed"
        /\ Has(GateTrace(trace[p]), "execute")
        /\ GateOver(q) /\ gate[q].sd.allowed /\ ~gate[q].committed
        /\ gate[q].outcome = "CommitFailed"

\* C2: once evaluateAction has returned allowed=false the run makes no
\* commitAction and no execute, and its result has success=false.
C2_DeniedStops ==
    \A p \in Procs :
        LET t == GateTrace(trace[p])
        IN  (\E i \in DOMAIN t : t[i].op = "evaluateAction" /\ ~t[i].ok)
               => /\ ~gate[p].result.success
                  /\ ~Has(t, "commitAction")
                  /\ ~Has(t, "execute")
                  /\ pc[p] \in {"record", "returned"}

C2_Witness ==
    \E p \in Procs :
        /\ pc[p] = "returned" /\ gate[p].outcome = "Denied"
        /\ ~gate[p].sd.allowed /\ ~gate[p].result.success

\* C3: in an orchestration call every ToolExecutor::execute of an action comes
\* after an evaluateAction that allowed it and a commitAction that accepted it.
C3_OrchestrateOnlyThroughGate ==
    \A p \in Procs :
        entry[p] \in Orchestrations =>
            \A i \in DOMAIN trace[p] :
                trace[p][i].op = "execute" =>
                    /\ \E j \in 1..(i - 1) :
                          /\ trace[p][j].op = "evaluateAction" /\ trace[p][j].ok
                          /\ trace[p][j].act = trace[p][i].act
                    /\ \E j \in 1..(i - 1) :
                          /\ trace[p][j].op = "commitAction" /\ trace[p][j].ok
                          /\ trace[p][j].act = trace[p][i].act

\* C4: the collaborator calls of a run of executeForCitizen are a prefix of
\* fetchCitizenEnvelope, evaluateAction, commitAction, execute: each at most
\* once, none before the ones ahead of it have returned.
C4_StrictOrder ==
    \A p \in Procs :
        IsPrefix(OpsOf(GateTrace(trace[p])),
                 << "fetchCitizenEnvelope", "evaluateAction", "commitAction", "execute" >>)

C4_Witness ==
    \E p \in Procs :
        /\ GateOver(p)
        /\ OpsOf(GateTrace(trace[p])) =
              << "fetchCitizenEnvelope", "evaluateAction", "commitAction", "execute" >>

\* C5: an orchestration call without consent makes no call at all (no fetch,
\* evaluate, commit, execute) and returns firstStepAutoExecuted = "false".
C5_NoConsentNoExecution ==
    \A p \in Procs :
        (entry[p] \in Orchestrations /\ ~ctx[p].consentExecuteFirstStep) =>
            /\ trace[p] = << >>
            /\ gate[p] = NoGate
            /\ pc[p] = "returned"
            /\ envelope[p].data["firstStepAutoExecuted"] = "false"

C5_Witness ==
    \E p, q \in Procs :
        /\ entry[p] = "handleOrchestrateAugmented" /\ pc[p] = "returned"
        /\ ~ctx[p].consentExecuteFirstStep
        /\ entry[q] = "handleOrchestrate" /\ pc[q] = "returned"
        /\ ~ctx[q].consentExecuteFirstStep

\* C6: in an orchestration call the only action handed to executeForCitizen
\* or to ToolExecutor::execute is plan.steps[0]; no later step is.
C6_OnlyFirstStep ==
    \A p \in Procs :
        entry[p] \in Orchestrations =>
            LET steps == envelope[p].plan.steps
                later == { steps[i] : i \in 2..Len(steps) }
            IN  /\ gate[p].action \in {NoAction, steps[1]}
                /\ gate[p].action \notin later
                /\ \A i \in DOMAIN trace[p] :
                      trace[p][i].op \in {"evaluateAction", "commitAction", "execute"}
                         => trace[p][i].act = steps[1] /\ trace[p][i].act \notin later

C6_Witness ==
    \E p \in Procs :
        /\ entry[p] = "handleOrchestrateAugmented" /\ pc[p] = "returned"
        /\ ctx[p].consentExecuteFirstStep
        /\ gate[p].outcome = "Executed"
        /\ \E i \in DOMAIN trace[p] :
              trace[p][i].op = "execute" /\ trace[p][i].act = envelope[p].plan.steps[1]

TerminalEvent ==
    [Denied       |-> "AugmentedCitizenAction.denied",
     CommitFailed |-> "AugmentedCitizenAction.commitFailed",
     RouteFailed  |-> "AugmentedCitizenAction.routeFailed",
     Executed     |-> "AugmentedCitizenAction.executed"]

Outcomes == DOMAIN TerminalEvent

IsTerminal(e) == e.op = "log" /\ \E o \in Outcomes : e.event = TerminalEvent[o]

\* C7: a run of executeForCitizen whose fetch succeeded ends by returning (it
\* does not throw) in exactly one of Denied, CommitFailed, RouteFailed,
\* Executed, and its result has success=true exactly when evaluateAction
\* allowed, commitAction returned true and execute succeeded.
C7_FourOutcomes ==
    \A p \in Procs :
        LET g == gate[p]
            t == GateTrace(trace[p])
            ends == SelectSeq(t, IsTerminal)
            fetched == \E i \in DOMAIN t : t[i].op = "fetchCitizenEnvelope" /\ t[i].ok
            aOk == \E i \in DOMAIN t : t[i].op = "evaluateAction" /\ t[i].ok
            cOk == \E i \in DOMAIN t : t[i].op = "commitAction" /\ t[i].ok
            xOk == \E i \in DOMAIN t : t[i].op = "execute" /\ t[i].ok
        IN  /\ fetched => pc[p] # "thrown"
            /\ (GateOver(p) /\ fetched) =>
                  /\ g.outcome \in Outcomes
                  /\ Len(ends) = 1
                  /\ ends[1].event = TerminalEvent[g.outcome]
                  /\ g.result.success <=> (aOk /\ cOk /\ xOk)
                  /\ g.outcome = "Executed" <=> g.result.success
                  /\ g.outcome = "Denied" <=> ~aOk
                  /\ g.outcome = "CommitFailed" <=> (aOk /\ ~cOk)
                  /\ g.outcome = "RouteFailed" <=> (aOk /\ cOk /\ ~xOk)
            /\ (~GateOver(p)) => Len(ends) = 0 /\ ~g.result.success

C7_Witness ==
    \E p, q \in Procs :
        /\ pc[p] = "returned" /\ gate[p].outcome = "RouteFailed"
        /\ ~gate[p].result.success
        /\ pc[q] = "returned" /\ gate[q].outcome = "Executed"
        /\ gate[q].result.success

\* C8 as stated: a run that ends RouteFailed returns a detail that includes
\* "post-commit route failure".
C8_PostCommitRouteFailureText ==
    \A p \in Procs :
        (GateOver(p) /\ gate[p].outcome = "RouteFailed") =>
            /\ ~gate[p].result.success
            /\ Contains(gate[p].result.detail, "post-commit route failure")

RouteFailedPrefix == "Tool route failed after commit: "

DeniedPrefix == "Action denied by ALN safety/energy guard: "

\* C8 amended: a run that ends RouteFailed returns success=false with the
\* detail "Tool route failed after commit: " followed by the dispatch detail
\* and logs AugmentedCitizenAction.routeFailed with that detail; the detail of
\* a denial starts with "Action denied by ALN safety/energy guard: " and the
\* detail of a commit failure is "ALN ledger commit failed; action not
\* executed.", so neither starts with the route-failure prefix, and only the
\* route failure comes after a commit that returned true.
C8_RouteFailureDistinguishable ==
    \A p \in Procs :
        GateOver(p) =>
            LET g == gate[p]
                t == trace[p]
            IN  /\ g.outcome = "RouteFailed" =>
                     /\ ~g.result.success
                     /\ g.committed
                     /\ g.result.detail = RouteFailedPrefix \o execute(g.action).detail
                     /\ t[Len(t)] = LogCall("AugmentedCitizenAction.routeFailed",
                                            g.result.detail)
                /\ g.outcome = "Denied" =>
                     /\ g.result.detail = DeniedPrefix \o g.sd.reason
                     /\ ~StartsWith(g.result.detail, RouteFailedPrefix)
                     /\ ~g.committed
                /\ g.outcome = "CommitFailed" =>
                     /\ g.result.detail = "ALN ledger commit failed; action not executed."
                     /\ ~StartsWith(g.result.detail, RouteFailedPrefix)
                     /\ ~g.committed
                /\ \A q \in Procs :
                     (GateOver(q) /\ g.outcome = "RouteFailed"
                        /\ gate[q].outcome \in {"Denied", "CommitFailed"})
                     => gate[q].result.detail # g.result.detail

C8_Witness ==
    \E p, q \in Procs :
        /\ pc[p] = "returned" /\ gate[p].outcome = "RouteFailed"
        /\ pc[q] = "returned" /\ gate[q].outcome = "Denied"

\* a thread holds a fetched envelope and has not finished its commitAction
InFlight(p) == pc[p] \in {"evaluate", "commit"}

\* C9: the evaluate+commit sequences of two runs for the same citizen never
\* overlap, and the budget committed for a citizen never exceeds the budget
\* the citizen has.
C9_SerializedPerCitizen ==
    /\ \A p, q \in Procs :
          (p # q /\ InFlight(p) /\ InFlight(q))
             => gate[p].citizenId # gate[q].citizenId
    /\ \A c \in Citizens : ledger.budget[c] >= 0

\* C10: with a single caller, when a run in which the ledger failed the commit
\* of an allowed action is followed by a run for the same citizen and action
\* in which the ledger accepts the commit, the first run ended CommitFailed
\* without touching the ledger and without dispatching, and the second run
\* consumed the budget once, recorded one event and dispatched once.
C10_RetryConsumesOnce ==
    \A p \in Procs :
        LET g1 == prev[p].gate
            g2 == gate[p]
            t2 == GateTrace(trace[p])
            c  == g2.citizenId
        IN  (/\ GateOver(p)
             /\ g1.sd.allowed /\ ~g1.committed
             /\ g2.citizenId = g1.citizenId /\ g2.action = g1.action
             /\ g2.committed)
            => /\ g1.outcome = "CommitFailed"
               /\ g1.after = g1.before
               /\ ~Has(prev[p].trace, "execute")
               /\ g2.before = g1.after
               /\ g2.after.budget[c] = g1.before.budget[c] - Cost
               /\ Len(g2.after.events) = Len(g1.before.events) + 1
               /\ g2.after = ledger
               /\ Cardinality({i \in DOMAIN t2 : t2[i].op = "commitAction"}) = 1
               /\ Cardinality({i \in DOMAIN t2 : t2[i].op = "execute"}) = 1

C10_Witness ==
    \E p \in Procs :
        /\ pc[p] = "returned"
        /\ prev[p].gate.outcome = "CommitFailed"
        /\ gate[p].citizenId = prev[p].gate.citizenId
        /\ gate[p].action = prev[p].gate.action
        /\ gate[p].outcome = "Executed"
        /\ ledger.budget[gate[p].citizenId] = prev[p].gate.before.budget[gate[p].citizenId] - Cost

\* ------------------------------------------- ToolExecutor::executePlan
MaxSteps == 2       \* longest plan handed to executePlan

ToolTypes == RecognizedTypes \cup {"SELF_DESTRUCT", ""}

ToolPayloads ==
    { [k \in {} |-> ""],
      [layer |-> "entropy-anomaly", target |-> "repo", item |-> "plan"] }

ToolPriorities == {1, 9}

ToolActions ==
    { AgentAction(t, pl, pr) : t \in ToolTypes, pl \in ToolPayloads, pr \in ToolPriorities }

RECURSIVE SeqsUpTo(_, _)
SeqsUpTo(S, n) ==
    IF n = 0 THEN { << >> }
    ELSE LET shorter == SeqsUpTo(S, n - 1)
         IN  shorter \cup { Append(q, x) : q \in {r \in shorter : Len(r) = n - 1}, x \in S }

\* the steps in descending priority, equal priorities in plan order
MutByPriority(steps, i) ==
    LET rank(k) == 1 + Cardinality({ j \in DOMAIN steps :
                        \/ steps[j].priority > steps[k].priority
                        \/ steps[j].priority = steps[k].priority /\ j < k })
    IN  steps[CHOOSE k \in DOMAIN steps : rank(k) = i]

\* the i-th step the range-for of executePlan visits
stepAt(steps, i) == steps[i]

InitTool ==
    /\ ThreadsIdle
    /\ ledger = NoLedger
    /\ hazard = NoHazard
    /\ classify = NoClassify
    /\ \E steps \in SeqsUpTo(ToolActions, MaxSteps) :
          tool = [NoTool EXCEPT !.pc = "called",
                                !.plan = [goal |-> "Mitigate", steps |-> steps]]

\* executePlan: results.reserve, the AgentPlan.execute log entry
executePlanBegin ==
    /\ tool.pc = "called"
    /\ tool' = [tool EXCEPT !.pc = "loop", !.i = 1, !.results = << >>,
                  !.trace = << LogCall("AgentPlan.execute", tool.plan.goal) >>]
    /\ UNCHANGED << threadVars, hazard, classify >>

\* one turn of the loop: results.push_back(execute(step))
executePlanStep ==
    /\ tool.pc = "loop"
    /\ tool.i <= Len(tool.plan.steps)
    /\ LET step == stepAt(tool.plan.steps, tool.i)
       IN  tool' = [tool EXCEPT !.i = @ + 1,
                       !.results = Append(@, execute(step)),
                       !.trace = @ \o executeCalls(step)]
    /\ UNCHANGED << threadVars, hazard, classify >>

\* return results
executePlanReturn ==
    /\ tool.pc = "loop"
    /\ tool.i > Len(tool.plan.steps)
    /\ tool' = [tool EXCEPT !.pc = "returned"]
    /\ UNCHANGED << threadVars, hazard, classify >>

NextTool ==
    \/ executePlanBegin
    \/ executePlanStep
    \/ executePlanReturn

SpecTool == InitTool /\ [][NextTool]_vars

\* C11: every ToolExecutor::execute returns a ToolResult; for the four
\* recognized types it has success=true whether or not the payload key is
\* there, for every other type it has success=false and a detail that names
\* the type.
C11_DispatchTotal ==
    /\ Len(tool.results) = tool.i - 1 \/ tool.pc \in {"none", "called"}
    /\ \A i \in DOMAIN tool.results :
          LET a == tool.plan.steps[i]
              r == tool.results[i]
          IN  /\ DOMAIN r = {"success", "detail"}
              /\ r.success \in BOOLEAN
              /\ a.type \in RecognizedTypes => r.success
              /\ a.type \notin RecognizedTypes =>
                    /\ ~r.success
                    /\ r.detail = "Unknown action type: " \o a.type
                    /\ Contains(r.detail, a.type)

\* a recognized type without its payload key routed, an unrecognized type refused
C11_Witness ==
    /\ tool.pc = "returned"
    /\ \E i, j \in DOMAIN tool.results :
          /\ tool.plan.steps[i].type = "RUN_DEEP_EXCAVATION"
          /\ "layer" \notin DOMAIN tool.plan.steps[i].payload
          /\ tool.results[i].success
          /\ tool.plan.steps[j].type = "SELF_DESTRUCT"
          /\ ~tool.results[j].success

ExecutedActs(t) ==
    LET x == SelectSeq(t, LAMBDA e : e.op = "execute") IN [i \in DOMAIN x |-> x[i].act]

\* C12: executePlan returns one result per step, the i-th being the dispatch
\* result of steps[i]; the steps are dispatched in plan order whatever their
\* priorities, and a failed step does not stop the ones after it.
C12_OneResultPerStep ==
    LET steps == tool.plan.steps
    IN  /\ Len(tool.results) <= Len(steps)
        /\ ExecutedActs(tool.trace) = SubSeq(steps, 1, Len(tool.results))
        /\ \A i \in DOMAIN tool.results :
              tool.results[i].success <=> (steps[i].type \in RecognizedTypes)
        /\ tool.pc = "returned" =>
              /\ Len(tool.results) = Len(steps)
              /\ \A i \in DOMAIN steps : tool.results[i] = execute(steps[i])

\* a failed low-priority step first, a routed high-priority step after it
C12_Witness ==
    /\ tool.pc = "returned"
    /\ Len(tool.plan.steps) >= 2
    /\ ~tool.results[1].success /\ tool.results[2].success
    /\ tool.plan.steps[1].priority < tool.plan.steps[2].priority

\* C20: every ToolExecutor::execute writes its AgentAction.dispatch log entry,
\* carrying the action type, right before it routes, whether the type is
\* recognized or not.
C20_AuditBeforeRouting ==
    \A i \in DOMAIN tool.trace :
        tool.trace[i].op = "execute" =>
            /\ i > 1
            /\ tool.trace[i - 1] = LogCall("AgentAction.dispatch", tool.trace[i].act.type)

C20_Witness ==
    /\ tool.pc = "returned"
    /\ \E i \in DOMAIN tool.trace :
          /\ tool.trace[i].op = "execute" /\ ~tool.trace[i].ok
          /\ tool.trace[i - 1].event = "AgentAction.dispatch"
    /\ \E i \in DOMAIN tool.trace :
          tool.trace[i].op = "execute" /\ tool.trace[i].ok

\* ------------------------------------------- lookup failure
\* C13: when fetchCitizenEnvelope fails for an unknown citizen the failure
\* leaves executeForCitizen for its caller, and that run calls none of
\* evaluateAction, commitAction and ToolExecutor::execute.
C13_LookupFailureSurfaces ==
    \A p \in Procs :
        LET t == GateTrace(trace[p])
        IN  \A i \in DOMAIN t :
                (t[i].op = "fetchCitizenEnvelope" /\ ~t[i].ok) =>
                    /\ pc[p] = "thrown"
                    /\ gate[p].outcome = "LookupFailed"
                    /\ ~gate[p].committed
                    /\ OpsOf(t) = << "fetchCitizenEnvelope" >>
                    /\ \A j \in (i + 1)..Len(t) : ~Collaborator(t[j])

C13_Witness ==
    \E p \in Procs :
        /\ pc[p] = "thrown"
        /\ gate[p].citizenId = Unknown
        /\ \E i \in DOMAIN trace[p] :
              trace[p][i].op = "fetchCitizenEnvelope" /\ ~trace[p][i].ok

\* ------------------------------------------- handleClassify as a handler
ClassifyInputs ==
    {"", "  \t ", "entropy source detected", "noise noise noise",
     Rep("ab ", 300), Rep("ab cd ", 170)}
    \cup { Rep("x", n) : n \in {675, 676, 750, 751, 1000, 1200} }

ClassifyIds == {"", "a", "b"}

InitClassify ==
    /\ ThreadsIdle
    /\ ledger = NoLedger
    /\ tool = NoTool
    /\ hazard = NoHazard
    /\ \E i \in ClassifyInputs, u \in ClassifyIds, ss \in ClassifyIds :
          classify = [pc |-> "called",
                      ctx |-> [CommandContext(i, FALSE, "") EXCEPT
                                  !.userId = u, !.sessionId = ss],
                      hin |-> HazardInput(Zero, Zero, Zero, Zero),
                      hout |-> HazardOutput(Zero, FALSE, FALSE, FALSE),
                      envelope |-> NoAgentEnvelope]

\* CommandBlock::handleClassify, the whole handler
handleClassify ==
    /\ classify.pc = "called"
    /\ \E hin \in {hazardInputOf(classify.ctx)} : \E hout \in {evaluate(hin)} :
           classify' = [classify EXCEPT
                          !.pc = "returned", !.hin = hin, !.hout = hout,
                          !.envelope = AgentEnvelope("Risk & Anomaly Classification",
                                          classifyData(hout),
                                          classifySteps(hout, classify.ctx))]
    /\ UNCHANGED << threadVars, tool, hazard >>

NextClassify == handleClassify

SpecClassify == InitClassify /\ [][NextClassify]_vars

IsReview(a) == a.type = "REQUEST_HUMAN_REVIEW"

IsExcavation(a) ==
    /\ a.type = "RUN_DEEP_EXCAVATION"
    /\ "layer" \in DOMAIN a.payload
    /\ a.payload.layer = "entropy-anomaly"

IsHazardReport(a) ==
    /\ a.type = "TRIGGER_REMOTE_TOOL"
    /\ "tool" \in DOMAIN a.payload
    /\ a.payload.tool = "ALNKernel.hazardReport"

\* C14: the plan of handleClassify is the decision table in its order: a
\* human-review step of priority 10 iff cognitiveHazard, then a deep-excavation
\* step on layer "entropy-anomaly" of priority 7 iff entropyAnomaly, then
\* always the hazard-report trigger of priority 5 that carries the computed
\* score; so the plan is never empty and ends with the hazard report.
C14_DecisionTable ==
    classify.pc = "returned" =>
        LET steps == classify.envelope.plan.steps
            hout  == classify.hout
            n     == Len(steps)
            reviews == { i \in DOMAIN steps : IsReview(steps[i]) }
            excavs  == { i \in DOMAIN steps : steps[i].type = "RUN_DEEP_EXCAVATION" }
        IN  /\ n >= 1
            /\ n = 1 + (IF hout.cognitiveHazard THEN 1 ELSE 0)
                     + (IF hout.entropyAnomaly THEN 1 ELSE 0)
            /\ IsHazardReport(steps[n])
            /\ steps[n].priority = 5
            /\ steps[n].payload.severityScore = to_string(hout.score)
            /\ \A i \in 1..(n - 1) : ~IsHazardReport(steps[i])
            /\ reviews = (IF hout.cognitiveHazard THEN {1} ELSE {})
            /\ excavs = (IF hout.entropyAnomaly THEN {n - 1} ELSE {})
            /\ \A i \in reviews : steps[i].priority = 10
            /\ \A i \in excavs : IsExcavation(steps[i]) /\ steps[i].priority = 7
            /\ hout.cognitiveHazard <=> GtD(hout.score, Ratio(65, 100))
            /\ hout.entropyAnomaly <=> GtD(classify.hin.entropy, Ratio(75, 100))

\* both flags raised: review, excavation, report
C14_Witness ==
    /\ classify.pc = "returned"
    /\ classify.hout.cognitiveHazard /\ classify.hout.entropyAnomaly
    /\ Len(classify.envelope.plan.steps) = 3

\* ------------------------------------------- orchestrate-mode plans
IsSpectralScan(a) ==
    /\ a.type = "TRIGGER_REMOTE_TOOL"
    /\ "tool" \in DOMAIN a.payload
    /\ a.payload.tool = "ALNKernel.spectralScan"

\* thread p holds the envelope an orchestrate handler built
Orchestrated(p) ==
    /\ entry[p] \in Orchestrations
    /\ envelope[p] # NoAgentEnvelope

\* C15: the orchestrate plan is the decision-table plan of the input between
\* a spectral-scan step and a blueprint step in front and a human-review step
\* behind: the hazard-report trigger with the computed score is in every
\* orchestrate plan, and an excavation step on layer "entropy-anomaly" is
\* there iff entropyAnomaly.
C15_OrchestrateWrapsDecisionTable ==
    \A p \in Procs :
        Orchestrated(p) =>
            LET steps == envelope[p].plan.steps
                n     == Len(steps)
                hout  == evaluate(hazardInputOf(ctx[p]))
            IN  /\ n >= 4
                /\ IsSpectralScan(steps[1])
                /\ steps[2].type = "PLAN_GENERATE_REPO_BLUEPRINT"
                /\ IsReview(steps[n])
                /\ \E i \in DOMAIN steps :
                      /\ IsHazardReport(steps[i])
                      /\ steps[i].payload.severityScore = to_string(hout.score)
                /\ (\E i \in DOMAIN steps : IsExcavation(steps[i])) <=> hout.entropyAnomaly
                /\ SubSeq(steps, 3, n - 1) = classifySteps(hout, ctx[p])

\* what the orchestrate plan is instead: four fixed steps, the excavation on
\* layer "deep" whatever the flags, and no hazard report
OrchestratePlanIsFixed ==
    \A p \in Procs :
        Orchestrated(p) =>
            LET steps == envelope[p].plan.steps
            IN  /\ Len(steps) = 4
                /\ IsSpectralScan(steps[1])
                /\ steps[2].type = "RUN_DEEP_EXCAVATION" /\ steps[2].payload.layer = "deep"
                /\ steps[3].type = "PLAN_GENERATE_REPO_BLUEPRINT"
                /\ IsReview(steps[4])
                /\ \A i \in DOMAIN steps : ~IsHazardReport(steps[i])
                /\ envelope[p].data.hazardScore
                     = to_string(evaluate(hazardInputOf(ctx[p])).score)

\* C16: in the envelope of handleOrchestrate and of
\* handleOrchestrateAugmented, whatever the input and the consent value, the
\* last step of the plan is a human-review request and plan.steps[0] is the
\* remote spectral-scan step.
C16_ScanFirstReviewLast ==
    \A p \in Procs :
        Orchestrated(p) =>
            LET steps == envelope[p].plan.steps
            IN  /\ steps # << >>
                /\ IsReview(steps[Len(steps)])
                /\ IsSpectralScan(steps[1])

\* one handler with consent and the other without, both with their plans
C16_Witness ==
    \E p, q \in Procs :
        /\ Orchestrated(p) /\ Orchestrated(q)
        /\ entry[p] = "handleOrchestrate" /\ ctx[p].consentExecuteFirstStep
        /\ entry[q] = "handleOrchestrateAugmented" /\ ~ctx[q].consentExecuteFirstStep
        /\ IsReview(envelope[q].plan.steps[Len(envelope[q].plan.steps)])

\* ------------------------------------------- ALNRiskClassifier::classify
UpperCase == "ABCDEFGHIJKLMNOPQRSTUVWXYZ"
LowerCase == "abcdefghijklmnopqrstuvwxyz"

\* std::tolower on one character
LowerChar(ch) ==
    IF \E i \in 1..Len(UpperCase) : CharAt(UpperCase, i) = ch
      THEN CharAt(LowerCase, CHOOSE i \in 1..Len(UpperCase) : CharAt(UpperCase, i) = ch)
      ELSE ch

\* toLower: every character lowered, by halves
RECURSIVE toLower(_)
toLower(s) ==
    IF Len(s) = 0 THEN ""
    ELSE IF Len(s) = 1 THEN LowerChar(s)
    ELSE toLower(SubSeq(s, 1, Len(s) \div 2)) \o toLower(SubSeq(s, Len(s) \div 2 + 1, Len(s)))

containsAny(text, keywords) == \E k \in keywords : Contains(text, k)

\* the three flags ALNRiskClassifier::classify sets, by keyword
riskClassify(input) ==
    LET textLower == toLower(input)
    IN  [cognitiveHazard |->
            containsAny(textLower, {"forbidden", "memetic", "cursed", "anomalous cognition"}),
         entropyAnomaly |->
            containsAny(textLower, {"random stream", "noise", "entropy source", "unstable log"}),
         ontologicalInstability |->
            containsAny(textLower, {"reality rewrite", "self-erasure", "identity collapse",
                                    "ontology loop"})]

EntropyText == "entropy source detected"

\* C19: the plan synthesized for the input "entropy source detected" has an
\* excavation step on layer "entropy-anomaly" and, after it, a hazard-report
\* step, and has no human-review step.
C19_EntropySourcePlan ==
    (classify.pc = "returned" /\ classify.ctx.input = EntropyText) =>
        LET steps == classify.envelope.plan.steps
        IN  /\ \E i, j \in DOMAIN steps :
                  i < j /\ IsExcavation(steps[i]) /\ IsHazardReport(steps[j])
            /\ \A i \in DOMAIN steps : ~IsReview(steps[i])

\* what the code does with that input: the keyword classifier raises
\* entropyAnomaly, handleClassify does not ask it and plans the report alone
EntropySourceInCode ==
    (classify.pc = "returned" /\ classify.ctx.input = EntropyText) =>
        /\ riskClassify(classify.ctx.input)
             = [cognitiveHazard |-> FALSE, entropyAnomaly |-> TRUE,
                ontologicalInstability |-> FALSE]
        /\ classify.hin.entropy = Ratio(23, 1000)
        /\ classify.hin.semanticDensity = One
        /\ ~classify.hout.entropyAnomaly /\ ~classify.hout.cognitiveHazard
        /\ classify.envelope.data.score = "0.389200"
        /\ classify.envelope.plan.steps = << reportStep(classify.hout) >>

\* ------------------------------------------- the envelope of a run
\* the entries of trace t that call op
CallsOf(t, op) == SelectSeq(t, LAMBDA e : e.op = op)

\* C21: every run of executeForCitizen fetches its own CitizenEnvelope, and
\* the envelope it hands to evaluateAction and the one it hands to
\* commitAction are the envelope that run's fetchCitizenEnvelope returned.
C21_FreshEnvelopePerRun ==
    \A p \in Procs :
        LET t == GateTrace(trace[p])
            fetched == CallsOf(t, "fetchCitizenEnvelope")
        IN  /\ Len(fetched) <= 1
            /\ pc[p] \in {"evaluate", "commit", "route"} => Len(fetched) = 1
            /\ \A i \in DOMAIN t :
                  t[i].op \in {"evaluateAction", "commitAction"} =>
                      /\ Len(fetched) = 1
                      /\ fetched[1].ok
                      /\ t[i].env = fetched[1].env
                      /\ gate[p].env = fetched[1].env

\* a thread's second run for the same citizen, whose fetched envelope differs
\* from the one its first run fetched and committed with, and which handed
\* the new one to evaluateAction
C21_Witness ==
    \E p \in Procs :
        /\ prev[p].gate.env # NoEnvelope
        /\ Has(prev[p].trace, "commitAction")
        /\ Has(GateTrace(trace[p]), "evaluateAction")
        /\ gate[p].env # prev[p].gate.env
        /\ gate[p].citizenId = prev[p].gate.citizenId

\* ------------------------------------------- the ledger around a run
\* the runs of thread p that are over: the one before and the current one
RunsOver(p) ==
    (IF prev[p].gate.outcome # "None" THEN {prev[p].gate} ELSE {})
    \cup (IF GateOver(p) THEN {gate[p]} ELSE {})

SameLedger(g) ==
    /\ g.after.budget = g.before.budget
    /\ g.after.events = g.before.events

\* C22: with a single caller, a run of executeForCitizen that ends Denied or
\* CommitFailed leaves the ledger as it found it: the budget and the
\* energy-event record after the run are those before it.  The same holds of
\* every run whose evaluateAction said no or whose commitAction did not
\* succeed.
C22_DeniedAndCommitFailedFrame ==
    \A p \in Procs :
        /\ \A g \in RunsOver(p) :
              /\ g.outcome \in {"Denied", "CommitFailed"} => SameLedger(g)
              /\ (~g.sd.allowed \/ ~g.committed) => SameLedger(g)
        /\ (GateOver(p) /\ gate[p].outcome \in {"Denied", "CommitFailed"}) =>
              /\ ledger.budget = gate[p].before.budget
              /\ ledger.events = gate[p].before.events

\* a run that executed and consumed the budget, then a run that is denied and
\* leaves the one recorded event and the spent budget as they are
C22_Witness ==
    \E p \in Procs :
        /\ GateOver(p)
        /\ prev[p].gate.outcome = "Executed"
        /\ gate[p].outcome = "Denied"
        /\ Len(ledger.events) = 1
        /\ ledger = gate[p].before

\* a run that ends CommitFailed on a ledger with budget left
CommitFailedReached ==
    \E p \in Procs :
        /\ GateOver(p)
        /\ gate[p].outcome = "CommitFailed"
        /\ gate[p].before.budget[gate[p].citizenId] >= Cost
        /\ ledger = gate[p].before

\* what a successful commitAction of run g leaves of the ledger g found
Committed(g) ==
    /\ g.after.budget = [g.before.budget EXCEPT ![g.citizenId] = @ - Cost]
    /\ g.after.events =
          Append(g.before.events, [citizenId |-> g.citizenId, type |-> g.action.type])

\* C23: with a single caller, once commitAction has succeeded nothing in the
\* run undoes it: a run that ends RouteFailed leaves the budget consumed and
\* the event recorded exactly as a run that ends Executed does.
C23_CommitSurvivesRouteFailure ==
    \A p \in Procs :
        /\ \A g \in RunsOver(p) :
              g.outcome \in {"RouteFailed", "Executed"} => g.committed /\ Committed(g)
        /\ (GateOver(p) /\ gate[p].outcome \in {"RouteFailed", "Executed"}) =>
              ledger = gate[p].after

\* a run whose route failed after the commit, the budget gone and the event
\* of the unroutable action on record
C23_Witness ==
    \E p \in Procs :
        /\ GateOver(p)
        /\ gate[p].outcome = "RouteFailed"
        /\ gate[p].before.budget[gate[p].citizenId] = Cost
        /\ ledger.budget[gate[p].citizenId] = 0
        /\ Len(ledger.events) = Len(gate[p].before.events) + 1

\* ------------------------------------------- the log of a run
\* the positions in t of the entries that satisfy Test
Where(t, Test(_)) == { i \in DOMAIN t : Test(t[i]) }

IsGatewayCall(e) == e.op \in {"fetchCitizenEnvelope", "evaluateAction", "commitAction"}

\* thread p is inside executeForCitizen, past its first statements, or has
\* left it
PastRequest(p) ==
    pc[p] \in {"fetch", "evaluate", "commit", "route"} \/ GateOver(p)

\* C24: in every run of executeForCitizen the request log entry comes first,
\* before fetchCitizenEnvelope, and a run that returns has written exactly one
\* terminal log entry, as its last call, which names its outcome: denied for
\* Denied, commitFailed for CommitFailed, routeFailed for RouteFailed,
\* executed for Executed.
C24_RequestFirstOneTerminal ==
    \A p \in Procs :
        LET t == trace[p]
            requests  == Where(t, IsRequest)
            terminals == Where(t, IsTerminal)
        IN  /\ PastRequest(p) =>
                  /\ Cardinality(requests) = 1
                  /\ \A r \in requests :
                        /\ \A i \in Where(t, IsGatewayCall) \cup terminals : r < i
                        /\ entry[p] = "executeForCitizen" => r = 1
                        /\ t[r].data = gate[p].action.type
            /\ ~PastRequest(p) => Where(t, IsGatewayCall) \cup terminals = {}
            /\ (GateOver(p) /\ gate[p].outcome \in Outcomes) =>
                  /\ terminals = {Len(t)}
                  /\ t[Len(t)].event = TerminalEvent[gate[p].outcome]
                  /\ t[Len(t)].data = gate[p].result.detail
            /\ (~GateOver(p) \/ gate[p].outcome \notin Outcomes) => terminals = {}

\* two finished runs with different outcomes, each with its request entry
\* before its fetch and its own terminal entry last
C24_Witness ==
    \E p, q \in Procs :
        /\ GateOver(p) /\ gate[p].outcome = "Denied"
        /\ trace[p][Len(trace[p])].event = TerminalEvent["Denied"]
        /\ IsRequest(trace[p][1]) /\ trace[p][2].op = "fetchCitizenEnvelope"
        /\ GateOver(q) /\ gate[q].outcome = "Executed"
        /\ trace[q][Len(trace[q])].event = TerminalEvent["Executed"]

\* ------------------------------------------- the first step of one call
\* the positions in the trace of thread p's call where ToolExecutor::execute
\* was handed plan.steps[0] of the envelope the call builds
FirstStepDispatches(p) ==
    { i \in DOMAIN trace[p] :
        /\ trace[p][i].op = "execute"
        /\ trace[p][i].act = front(envelope[p].plan.steps) }

\* C25: in the envelope handleOrchestrateAugmented returns,
\* data["firstStepAutoExecuted"] is "true" iff plan.steps[0] was dispatched to
\* ToolExecutor during the call; with the flag "false" no tool ran in the call.
C25_FlagIffDispatched ==
    \A p \in Procs :
        (entry[p] = "handleOrchestrateAugmented" /\ pc[p] = "returned") =>
            /\ envelope[p].data.firstStepAutoExecuted = "true"
                  <=> FirstStepDispatches(p) # {}
            /\ envelope[p].data.firstStepAutoExecuted = "false"
                  => ~Has(trace[p], "execute")

\* what does hold of the flag: it is "true" exactly when the gated run ended
\* Executed; without consent nothing is dispatched
FlagIffGateExecuted ==
    \A p \in Procs :
        (entry[p] = "handleOrchestrateAugmented" /\ pc[p] = "returned") =>
            /\ envelope[p].data.firstStepAutoExecuted = "true"
                  <=> gate[p].outcome = "Executed"
            /\ ~ctx[p].consentExecuteFirstStep => ~Has(trace[p], "execute")
            /\ ctx[p].consentExecuteFirstStep => 2 \in FirstStepDispatches(p)

\* C26: during one call of handleOrchestrateAugmented with consent,
\* plan.steps[0] is dispatched to ToolExecutor at most once.
C26_FirstStepAtMostOnce ==
    \A p \in Procs :
        (entry[p] = "handleOrchestrateAugmented" /\ ctx[p].consentExecuteFirstStep) =>
            Cardinality(FirstStepDispatches(p)) <= 1

\* the count the code reaches: once ungated in handleOrchestrate, once more
\* through the gate when the run ends Executed, never more than twice
FirstStepUpToTwice ==
    \A p \in Procs :
        (entry[p] = "handleOrchestrateAugmented" /\ ctx[p].consentExecuteFirstStep) =>
            /\ Cardinality(FirstStepDispatches(p)) <= 2
            /\ (GateOver(p) /\ gate[p].outcome = "Executed") =>
                  Cardinality(FirstStepDispatches(p)) = 2

====
